---------------------------- MODULE Spec2Model ----------------------------
(***************************************************************************)
(* Signal-generation engine of signal-stride-folio: the pattern detectors, *)
(* the volatility / zone / bias calculators and the two signal generators  *)
(* (generateEntrySignals of the entries function, generateICTSignal of the *)
(* ict-signals function); the bar store and the POST handlers of the three *)
(* functions; the rate-limited provider calls of the market-data function. *)
(* Each part has its own specification: Spec and LiquiditySpec (engine),   *)
(* HandlerSpec (store and handlers), RateSpec (provider calls).            *)
(*                                                                         *)
(* Numbers.  Bar prices and volumes are integers (price ticks); every      *)
(* derived quantity (ATR, zone levels, stops, targets, ratios) is an exact *)
(* rational [n, d] in lowest terms with d > 0.  IEEE-754 rounding of the   *)
(* JavaScript doubles is not modelled; the non-finite results of a         *)
(* division by zero (NaN, +-Infinity) are modelled where the code can      *)
(* produce them.  Timestamps are whole days counted from 1 January 00:00   *)
(* of the wall-clock year (day 0), so a bar of an earlier year has a       *)
(* negative timestamp.                                                     *)
(***************************************************************************)
EXTENDS Integers, Sequences, FiniteSets, TLC

VARIABLES data, nowDay, ret,              \* the engine: series, clock day, result
          store, resp,                    \* the bar store and the HTTP response
          clock, lastCallTime, calls, starts  \* the provider calls of market-data

handlerVars == <<store, resp>>

rateVars == <<clock, lastCallTime, calls, starts>>

vars == <<data, nowDay, ret, store, resp, clock, lastCallTime, calls, starts>>

---------------------------------------------------------------------------
(* Arithmetic of JavaScript numbers, as exact rationals.                   *)

Abs(x) == IF x < 0 THEN -x ELSE x

Max2(a, b) == IF a >= b THEN a ELSE b

Min2(a, b) == IF a <= b THEN a ELSE b

RECURSIVE GCD(_, _)
GCD(a, b) == IF b = 0 THEN a ELSE GCD(b, a % b)

Rat(n, d) ==
  LET g == GCD(Abs(n), d)
  IN  [n |-> (IF n < 0 THEN -((-n) \div g) ELSE n \div g), d |-> d \div g]

RInt(x) == [n |-> x, d |-> 1]

RAdd(a, b) == Rat(a.n * b.d + b.n * a.d, a.d * b.d)

RNeg(a) == [n |-> -a.n, d |-> a.d]

RSub(a, b) == RAdd(a, RNeg(b))

RMul(a, b) == Rat(a.n * b.n, a.d * b.d)

\* a / b for b # 0
RDiv(a, b) ==
  IF b.n > 0 THEN Rat(a.n * b.d, a.d * b.n) ELSE Rat(-(a.n * b.d), a.d * (-b.n))

RLt(a, b) == a.n * b.d < b.n * a.d

RLe(a, b) == a.n * b.d <= b.n * a.d

RGt(a, b) == RLt(b, a)

RGe(a, b) == RLe(b, a)

RECURSIVE SumSeq(_)
SumSeq(s) == IF s = <<>> THEN 0 ELSE s[1] + SumSeq(Tail(s))

\* Math.max(...xs) and Math.min(...xs) of a non-empty array
MaxSeq(s) ==
  CHOOSE x \in {s[i] : i \in 1..Len(s)} : \A i \in 1..Len(s) : x >= s[i]

MinSeq(s) ==
  CHOOSE x \in {s[i] : i \in 1..Len(s)} : \A i \in 1..Len(s) : x <= s[i]

\* Array.prototype.slice(start, end): negative indices count from the end
slice(s, start, end) ==
  LET n    == Len(s)
      from == IF start < 0 THEN Max2(n + start, 0) ELSE Min2(start, n)
      to   == IF end < 0 THEN Max2(n + end, 0) ELSE Min2(end, n)
  IN  SubSeq(s, from + 1, to)

\* Array.prototype.slice(start)
sliceFrom(s, start) == slice(s, start, Len(s))

\* Array.prototype.map over one field
highsOf(s) == [i \in 1..Len(s) |-> s[i].high]

lowsOf(s) == [i \in 1..Len(s) |-> s[i].low]

---------------------------------------------------------------------------
(* entries function (src/unnamed/part_000): pattern detectors              *)

\* detectEngulfing comparing the current bar with the bar before the previous
detectEngulfingStale(d) ==
  IF Len(d) < 2 THEN [bullish |-> FALSE, bearish |-> FALSE]
  ELSE LET current  == d[Len(d)]
           previous == d[Max2(Len(d) - 2, 1)]
       IN  [bullish |-> /\ previous.close < previous.open
                        /\ current.close > current.open
                        /\ current.open < previous.close
                        /\ current.close > previous.open,
            bearish |-> /\ previous.close > previous.open
                        /\ current.close < current.open
                        /\ current.open > previous.close
                        /\ current.close < previous.open]

detectEngulfing(d) ==
  IF Len(d) < 2 THEN [bullish |-> FALSE, bearish |-> FALSE]
  ELSE LET current  == d[Len(d)]
           previous == d[Len(d) - 1]
       IN  [bullish |-> /\ previous.close < previous.open
                        /\ current.close > current.open
                        /\ current.open < previous.close
                        /\ current.close > previous.open,
            bearish |-> /\ previous.close > previous.open
                        /\ current.close < current.open
                        /\ current.open > previous.close
                        /\ current.close < previous.open]

\* detectDoji with < in place of <=
detectDojiStrict(candle) ==
  LET bodySize == Abs(candle.close - candle.open)
      range    == candle.high - candle.low
  IN  IF range = 0 THEN FALSE
      ELSE RLt(RDiv(RInt(bodySize), RInt(range)), Rat(1, 1000))

\* bodySize / range <= 0.001.  With range = 0 the quotient is NaN (body 0)
\* or Infinity (body > 0), and both compare false against 0.001.
detectDoji(candle) ==
  LET bodySize == Abs(candle.close - candle.open)
      range    == candle.high - candle.low
  IN  IF range = 0 THEN FALSE
      ELSE RLe(RDiv(RInt(bodySize), RInt(range)), Rat(1, 1000))

\* detectTurtleSoup with the two breakout candles taken in the wrong order
detectTurtleSoupSwapped(d) ==
  IF Len(d) < 22 THEN [bullish |-> FALSE, bearish |-> FALSE]
  ELSE LET recent          == sliceFrom(d, -22)
           last20          == slice(recent, 0, 20)
           breakoutCandles == sliceFrom(recent, -2)
           high20          == MaxSeq(highsOf(last20))
           low20           == MinSeq(lowsOf(last20))
       IN  [bullish |-> /\ breakoutCandles[2].low < low20
                        /\ breakoutCandles[1].close > low20,
            bearish |-> /\ breakoutCandles[2].high > high20
                        /\ breakoutCandles[1].close < high20]

detectTurtleSoup(d) ==
  IF Len(d) < 22 THEN [bullish |-> FALSE, bearish |-> FALSE]
  ELSE LET recent          == sliceFrom(d, -22)
           last20          == slice(recent, 0, 20)
           breakoutCandles == sliceFrom(recent, -2)
           high20          == MaxSeq(highsOf(last20))
           low20           == MinSeq(lowsOf(last20))
           falseBreakoutUp   == /\ breakoutCandles[1].high > high20
                                /\ breakoutCandles[2].close < high20
           falseBreakoutDown == /\ breakoutCandles[1].low < low20
                                /\ breakoutCandles[2].close > low20
       IN  [bullish |-> falseBreakoutDown, bearish |-> falseBreakoutUp]

\* rangePercent = range / midPoint <= 0.005; a zero midPoint gives NaN or
\* Infinity, which compare false.
detectCRT(d) ==
  IF Len(d) < 6 THEN FALSE
  ELSE LET recent    == sliceFrom(d, -6)
           rangeHigh == MaxSeq(highsOf(recent))
           rangeLow  == MinSeq(lowsOf(recent))
           range     == rangeHigh - rangeLow
           midPoint  == Rat(rangeHigh + rangeLow, 2)
       IN  IF midPoint.n = 0 THEN FALSE
           ELSE RLe(RDiv(RInt(range), midPoint), Rat(5, 1000))

---------------------------------------------------------------------------
(* The wall clock: new Date(), getMonth(), new Date(year, month, date)     *)

\* first day of each month of a common year, January = month 0
MonthStarts == <<0, 31, 59, 90, 120, 151, 181, 212, 243, 273, 304, 334>>

\* new Date(currentDate.getFullYear(), month, date), local midnight
DateOf(month, date) == MonthStarts[month + 1] + date - 1

\* currentDate.getMonth()
getMonth(day) == Cardinality({m \in 1..12 : MonthStarts[m] <= day}) - 1

\* Math.floor(currentDate.getMonth() / 3) + 1
currentQuarterOf(day) == (getMonth(day) \div 3) + 1

---------------------------------------------------------------------------
(* entries function: zones, IPDA, volatility, bias                         *)

\* analyzePDArrays classifying with > and < in place of >= and <=
analyzePDArraysStrict(d) ==
  LET recentData == sliceFrom(d, -20)
  IN  IF Len(recentData) < 20
      THEN [premium |-> RInt(0), equilibrium |-> RInt(0), discount |-> RInt(0),
            current |-> RInt(0), zone |-> "equilibrium"]
      ELSE LET rangeHigh   == MaxSeq(highsOf(recentData))
               rangeLow    == MinSeq(lowsOf(recentData))
               range       == rangeHigh - rangeLow
               premium     == RAdd(RInt(rangeLow), RMul(RInt(range), Rat(3, 4)))
               equilibrium == RAdd(RInt(rangeLow), RMul(RInt(range), Rat(1, 2)))
               discount    == RAdd(RInt(rangeLow), RMul(RInt(range), Rat(1, 4)))
               current     == RInt(d[Len(d)].close)
           IN  [premium |-> premium, equilibrium |-> equilibrium,
                discount |-> discount, current |-> current,
                zone |-> IF RGt(current, premium) THEN "premium"
                         ELSE IF RLt(current, discount) THEN "discount"
                         ELSE "equilibrium"]

analyzePDArrays(d) ==
  LET recentData == sliceFrom(d, -20)
  IN  IF Len(recentData) < 20
      THEN [premium |-> RInt(0), equilibrium |-> RInt(0), discount |-> RInt(0),
            current |-> RInt(0), zone |-> "equilibrium"]
      ELSE LET rangeHigh   == MaxSeq(highsOf(recentData))
               rangeLow    == MinSeq(lowsOf(recentData))
               range       == rangeHigh - rangeLow
               premium     == RAdd(RInt(rangeLow), RMul(RInt(range), Rat(3, 4)))
               equilibrium == RAdd(RInt(rangeLow), RMul(RInt(range), Rat(1, 2)))
               discount    == RAdd(RInt(rangeLow), RMul(RInt(range), Rat(1, 4)))
               current     == RInt(d[Len(d)].close)
           IN  [premium |-> premium, equilibrium |-> equilibrium,
                discount |-> discount, current |-> current,
                zone |-> IF RGe(current, premium) THEN "premium"
                         ELSE IF RLe(current, discount) THEN "discount"
                         ELSE "equilibrium"]

NoEntry == [rejection |-> FALSE, breakout |-> FALSE, direction |-> "null"]

\* detectPDArrayEntries testing the breakouts ahead of the rejections
detectPDArrayEntriesBreakoutFirst(d, pdArrays) ==
  IF Len(d) < 3 THEN NoEntry
  ELSE LET current  == d[Len(d)]
           previous == d[Len(d) - 1]
       IN  IF RGt(RInt(current.close), pdArrays.premium)
             THEN [rejection |-> FALSE, breakout |-> TRUE, direction |-> "bullish"]
           ELSE IF RLt(RInt(current.close), pdArrays.discount)
             THEN [rejection |-> FALSE, breakout |-> TRUE, direction |-> "bearish"]
           ELSE IF /\ pdArrays.zone = "premium"
                   /\ RGe(RInt(previous.high), pdArrays.premium)
                   /\ current.close < previous.low
             THEN [rejection |-> TRUE, breakout |-> FALSE, direction |-> "bearish"]
           ELSE IF /\ pdArrays.zone = "discount"
                   /\ RLe(RInt(previous.low), pdArrays.discount)
                   /\ current.close > previous.high
             THEN [rejection |-> TRUE, breakout |-> FALSE, direction |-> "bullish"]
           ELSE NoEntry

detectPDArrayEntries(d, pdArrays) ==
  IF Len(d) < 3 THEN NoEntry
  ELSE LET recent   == sliceFrom(d, -3)
           current  == recent[3]
           previous == recent[2]
           rejectPremium  == /\ pdArrays.zone = "premium"
                             /\ RGe(RInt(previous.high), pdArrays.premium)
                             /\ current.close < previous.low
           rejectDiscount == /\ pdArrays.zone = "discount"
                             /\ RLe(RInt(previous.low), pdArrays.discount)
                             /\ current.close > previous.high
           breakoutUp     == RGt(RInt(current.close), pdArrays.premium)
           breakoutDown   == RLt(RInt(current.close), pdArrays.discount)
       IN  IF rejectPremium
             THEN [rejection |-> TRUE, breakout |-> FALSE, direction |-> "bearish"]
           ELSE IF rejectDiscount
             THEN [rejection |-> TRUE, breakout |-> FALSE, direction |-> "bullish"]
           ELSE IF breakoutUp
             THEN [rejection |-> FALSE, breakout |-> TRUE, direction |-> "bullish"]
           ELSE IF breakoutDown
             THEN [rejection |-> FALSE, breakout |-> TRUE, direction |-> "bearish"]
           ELSE NoEntry

analyzeIPDA(pdArrays, now) ==
  LET currentQuarter == currentQuarterOf(now)
  IN  IF currentQuarter = 2 /\ pdArrays.zone = "discount"
        THEN [shouldBuy |-> TRUE, shouldSell |-> FALSE, phase |-> "Q2_Markup"]
      ELSE IF currentQuarter = 3 /\ pdArrays.zone = "premium"
        THEN [shouldBuy |-> FALSE, shouldSell |-> TRUE, phase |-> "Q3_Distribution"]
      ELSE [shouldBuy |-> FALSE, shouldSell |-> FALSE, phase |-> "Neutral"]

\* Math.max(tr1, tr2, tr3) of one loop iteration
trueRange(current, previous) ==
  Max2(current.high - current.low,
       Max2(Abs(current.high - previous.close), Abs(current.low - previous.close)))

\* the trueRanges array after the loop: one entry per i in 1..length-1
trueRangesOf(d) == [i \in 1..(Len(d) - 1) |-> trueRange(d[i + 1], d[i])]

\* calculateATR with the length guard one bar short
calculateATRShortGuard(d, period) ==
  IF Len(d) < period THEN RInt(0)
  ELSE Rat(SumSeq(sliceFrom(trueRangesOf(d), -period)), period)

calculateATR(d, period) ==
  IF Len(d) < period + 1 THEN RInt(0)
  ELSE Rat(SumSeq(sliceFrom(trueRangesOf(d), -period)), period)

analyzeVolatility(d) ==
  LET currentATR == calculateATR(sliceFrom(d, -14), 14)
      avgATR     == calculateATR(slice(d, -34, -14), 20)
  IN  [isHighVolatility |-> RGt(currentATR, avgATR),
       currentATR |-> currentATR, avgATR |-> avgATR]

getQuarterlyBias(d, now) ==
  IF Len(d) < 60 THEN "neutral"
  ELSE LET q1End  == DateOf(2, 31)
           q2End  == DateOf(5, 30)
           q3End  == DateOf(8, 30)
           InQ2(b) == b.timestamp <= q2End /\ b.timestamp > q1End
           InQ3(b) == b.timestamp <= q3End /\ b.timestamp > q2End
           q2Data == SelectSeq(d, InQ2)
           q3Data == SelectSeq(d, InQ3)
       IN  IF Len(q2Data) = 0 THEN "neutral"
           ELSE LET q2High == MaxSeq(highsOf(q2Data))
                    q3Low  == IF Len(q3Data) > 0 THEN MinSeq(lowsOf(q3Data))
                              ELSE q2High
                    currentPrice == d[Len(d)].close
                IN  IF currentPrice > q2High THEN "bullish"
                    ELSE IF currentPrice < q3Low THEN "bearish"
                    ELSE "neutral"

---------------------------------------------------------------------------
(* entries function: the signal synthesizer                                *)

\* one pushed EntrySignal: stop 1.5 ATR and target 3 ATR away from the price
EntrySignal(asset, strategy, currentPrice, atr, bias, confidence) ==
  [asset |-> asset, timeframe |-> "5min", strategy |-> strategy,
   entry_price |-> RInt(currentPrice),
   stop_loss |-> IF bias = "bullish"
                 THEN RSub(RInt(currentPrice), RMul(atr, Rat(3, 2)))
                 ELSE RAdd(RInt(currentPrice), RMul(atr, Rat(3, 2))),
   take_profit |-> IF bias = "bullish"
                   THEN RAdd(RInt(currentPrice), RMul(atr, RInt(3)))
                   ELSE RSub(RInt(currentPrice), RMul(atr, RInt(3))),
   bias |-> bias, confidence |-> confidence]

\* signals.push(...) under a condition
PushIf(cond, signal) == IF cond THEN <<signal>> ELSE <<>>

\* lines 275-408: the detectors and the pushes that follow the gate
detectAndPush(asset, d, now, atr, bias, pdArrays) ==
  LET currentPrice == d[Len(d)].close
      engulfing    == detectEngulfing(d)
      turtleSoup   == detectTurtleSoup(d)
      crt          == detectCRT(d)
      pdEntries    == detectPDArrayEntries(d, pdArrays)
      ipda         == analyzeIPDA(pdArrays, now)
      Sig(strategy, b, confidence) ==
        EntrySignal(asset, strategy, currentPrice, atr, b, confidence)
  IN  PushIf(engulfing.bullish /\ bias # "bearish",
             Sig("Bullish_Engulfing", "bullish", Rat(7, 10)))
   \o PushIf(engulfing.bearish /\ bias # "bullish",
             Sig("Bearish_Engulfing", "bearish", Rat(7, 10)))
   \o PushIf(turtleSoup.bullish,
             Sig("Turtle_Soup_Bullish", "bullish", Rat(8, 10)))
   \o PushIf(turtleSoup.bearish,
             Sig("Turtle_Soup_Bearish", "bearish", Rat(8, 10)))
   \o PushIf(crt /\ bias = "bullish"
                 /\ RGt(RInt(currentPrice), pdArrays.equilibrium),
             Sig("CRT_Breakout_Bullish", "bullish", Rat(6, 10)))
   \o PushIf(crt /\ bias = "bearish"
                 /\ RLt(RInt(currentPrice), pdArrays.equilibrium),
             Sig("CRT_Breakout_Bearish", "bearish", Rat(6, 10)))
   \o PushIf(pdEntries.rejection /\ pdEntries.direction # "null",
             Sig(IF pdEntries.direction = "bullish"
                 THEN "PD_Array_Rejection_bullish"
                 ELSE "PD_Array_Rejection_bearish",
                 pdEntries.direction, Rat(75, 100)))
   \o PushIf(ipda.shouldBuy /\ bias # "bearish",
             Sig("IPDA_Discount_Buy", "bullish", Rat(85, 100)))
   \o PushIf(ipda.shouldSell /\ bias # "bullish",
             Sig("IPDA_Premium_Sell", "bearish", Rat(85, 100)))

\* generateEntrySignals without its two early returns
generateEntrySignalsUngated(asset, d, now) ==
  IF Len(d) = 0 THEN <<>>
  ELSE detectAndPush(asset, d, now, calculateATR(d, 20),
                     getQuarterlyBias(d, now), analyzePDArrays(d))

generateEntrySignals(asset, d, now) ==
  IF Len(d) < 60 THEN <<>>
  ELSE LET atr        == calculateATR(d, 20)
           volatility == analyzeVolatility(d)
           bias       == getQuarterlyBias(d, now)
           pdArrays   == analyzePDArrays(d)
       IN  IF ~volatility.isHighVolatility THEN <<>>
           ELSE detectAndPush(asset, d, now, atr, bias, pdArrays)

---------------------------------------------------------------------------
(* ict-signals function (src/supabase/functions/ict-signals/index.ts)      *)

\* analyzeQuarterlyBias without the test on q1Data
analyzeQuarterlyBiasNoQ1(d, now) == getQuarterlyBias(d, now)

analyzeQuarterlyBias(d, now) ==
  IF Len(d) < 60 THEN "neutral"
  ELSE LET q1End  == DateOf(2, 31)
           q2End  == DateOf(5, 30)
           q3End  == DateOf(8, 30)
           InQ1(b) == b.timestamp <= q1End
           InQ2(b) == b.timestamp <= q2End /\ b.timestamp > q1End
           InQ3(b) == b.timestamp <= q3End /\ b.timestamp > q2End
           q1Data == SelectSeq(d, InQ1)
           q2Data == SelectSeq(d, InQ2)
           q3Data == SelectSeq(d, InQ3)
       IN  IF Len(q1Data) = 0 \/ Len(q2Data) = 0 THEN "neutral"
           ELSE LET q2High == MaxSeq(highsOf(q2Data))
                    q3Low  == IF Len(q3Data) > 0 THEN MinSeq(lowsOf(q3Data))
                              ELSE q2High
                    currentPrice == d[Len(d)].close
                IN  IF currentPrice > q2High THEN "bullish"
                    ELSE IF currentPrice < q3Low THEN "bearish"
                    ELSE "neutral"

\* Math.abs(x - base) / base <= tolerance, tolerance = 0.005; a zero base
\* gives NaN or Infinity, which compare false
withinTolerance(x, base) ==
  IF base = 0 THEN FALSE
  ELSE RLe(RDiv(RInt(Abs(x - base)), RInt(base)), Rat(5, 1000))

\* the counter with the look-ahead reaching index i+10 inclusive
equalCountTen(xs, i) ==
  1 + Cardinality({j \in (i + 1)..(Min2(i + 11, Len(xs)) - 1) :
                     withinTolerance(xs[j + 1], xs[i + 1])})

\* the counter of one outer iteration (0-based i over the array xs):
\* 1 plus the number of j in i+1 .. min(i+10, length)-1 within tolerance
equalCount(xs, i) ==
  1 + Cardinality({j \in (i + 1)..(Min2(i + 10, Len(xs)) - 1) :
                     withinTolerance(xs[j + 1], xs[i + 1])})

\* the pools pushed by one of the two outer loops for i = lo .. hi, in the
\* order of i (the range is halved rather than walked, to keep the
\* evaluation shallow on long series)
RECURSIVE poolsBetween(_, _, _)
poolsBetween(xs, lo, hi) ==
  IF lo > hi THEN <<>>
  ELSE IF lo = hi
    THEN LET equal == equalCount(xs, lo)
         IN  IF equal >= 2
               THEN <<[type |-> "liquidity_pool", price |-> RInt(xs[lo + 1]),
                       strength |-> equal]>>
               ELSE <<>>
  ELSE LET mid == (lo + hi) \div 2
       IN  poolsBetween(xs, lo, mid) \o poolsBetween(xs, mid + 1, hi)

identifyLiquidityPools(d) ==
  poolsBetween(highsOf(d), 1, Len(d) - 2) \o poolsBetween(lowsOf(d), 1, Len(d) - 2)

\* calculatePDArrays measuring the levels down from the range high
calculatePDArraysFromHigh(d) ==
  LET recentData == sliceFrom(d, -20)
  IN  IF Len(recentData) < 20 THEN <<>>
      ELSE LET rangeHigh == MaxSeq(highsOf(recentData))
               rangeLow  == MinSeq(lowsOf(recentData))
               range     == rangeHigh - rangeLow
           IN  << [type |-> "premium",
                   price |-> RSub(RInt(rangeHigh), RMul(RInt(range), Rat(3, 4))),
                   strength |-> 3],
                  [type |-> "equilibrium",
                   price |-> RSub(RInt(rangeHigh), RMul(RInt(range), Rat(1, 2))),
                   strength |-> 2],
                  [type |-> "discount",
                   price |-> RSub(RInt(rangeHigh), RMul(RInt(range), Rat(1, 4))),
                   strength |-> 3] >>

calculatePDArrays(d) ==
  LET recentData == sliceFrom(d, -20)
  IN  IF Len(recentData) < 20 THEN <<>>
      ELSE LET rangeHigh == MaxSeq(highsOf(recentData))
               rangeLow  == MinSeq(lowsOf(recentData))
               range     == rangeHigh - rangeLow
           IN  << [type |-> "premium",
                   price |-> RAdd(RInt(rangeLow), RMul(RInt(range), Rat(3, 4))),
                   strength |-> 3],
                  [type |-> "equilibrium",
                   price |-> RAdd(RInt(rangeLow), RMul(RInt(range), Rat(1, 2))),
                   strength |-> 2],
                  [type |-> "discount",
                   price |-> RAdd(RInt(rangeLow), RMul(RInt(range), Rat(1, 4))),
                   strength |-> 3] >>

\* detectLiquidityEvents looking for the break and for the reversal in all
\* five bars of the window
detectLiquidityEventsWholeWindow(d, liquidityPools) ==
  IF Len(d) < 5 THEN FALSE
  ELSE LET recentData == sliceFrom(d, -5)
           last20     == sliceFrom(d, -20)
           avgVolume  == Rat(SumSeq([i \in 1..Len(last20) |-> last20[i].volume]), 20)
           hasVolumeSpike ==
             \E i \in 1..5 : RGt(RInt(recentData[i].volume), RMul(avgVolume, RInt(2)))
           Swept(pool) ==
             \E i, j \in 1..5 :
               \/ /\ RLt(RInt(recentData[i].low), pool.price)
                  /\ RGt(RInt(recentData[j].close), pool.price)
               \/ /\ RGt(RInt(recentData[i].high), pool.price)
                  /\ RLt(RInt(recentData[j].close), pool.price)
       IN  hasVolumeSpike /\ \E k \in 1..Len(liquidityPools) : Swept(liquidityPools[k])

detectLiquidityEvents(d, liquidityPools) ==
  IF Len(d) < 5 THEN FALSE
  ELSE LET recentData == sliceFrom(d, -5)
           last20     == sliceFrom(d, -20)
           avgVolume  == Rat(SumSeq([i \in 1..Len(last20) |-> last20[i].volume]), 20)
           Spikes(b)  == RGt(RInt(b.volume), RMul(avgVolume, RInt(2)))
           hasVolumeSpike == \E i \in 1..Len(recentData) : Spikes(recentData[i])
           breakData    == slice(recentData, 0, 3)
           reversalData == sliceFrom(recentData, -3)
           Swept(pool) ==
             LET Above(b)   == RGt(RInt(b.high), pool.price)
                 Below(b)   == RLt(RInt(b.low), pool.price)
                 Breaks(b)  == Above(b) \/ Below(b)
                 Reverses(b) ==
                   \/ /\ RGt(RInt(b.close), pool.price)
                      /\ \E i \in 1..Len(breakData) : Below(breakData[i])
                   \/ /\ RLt(RInt(b.close), pool.price)
                      /\ \E i \in 1..Len(breakData) : Above(breakData[i])
                 hasBreak    == \E i \in 1..Len(breakData) : Breaks(breakData[i])
                 hasReversal ==
                   \E i \in 1..Len(reversalData) : Reverses(reversalData[i])
             IN  hasBreak /\ hasReversal /\ hasVolumeSpike
       IN  \E k \in 1..Len(liquidityPools) : Swept(liquidityPools[k])

\* the 14-bar ATR taken with the period-guarded calculateATR of the entries
\* function, which returns 0 on a window of exactly `period` bars
ictCalculateATRPeriodGuard(d) == calculateATR(d, Len(d))

\* calculateATR of ict-signals: the mean of all true ranges of its argument
ictCalculateATR(d) ==
  IF Len(d) < 2 THEN RInt(0)
  ELSE Rat(SumSeq(trueRangesOf(d)), Len(trueRangesOf(d)))

\* Array.prototype.find on the zone type; <<>> stands for undefined
findZone(pdArrays, type) ==
  LET IsType(z) == z.type = type
  IN  SelectSeq(pdArrays, IsType)

\* the returned TradeSignal as a one-element sequence, null as <<>>
generateICTSignal(asset, d, now) ==
  IF Len(d) < 60 THEN <<>>
  ELSE LET bias              == analyzeQuarterlyBias(d, now)
           liquidityPools    == identifyLiquidityPools(d)
           pdArrays          == calculatePDArrays(d)
           hasLiquidityEvent == detectLiquidityEvents(d, liquidityPools)
       IN  IF bias = "neutral" \/ ~hasLiquidityEvent THEN <<>>
           ELSE LET currentPrice == RInt(d[Len(d)].close)
                    atr          == ictCalculateATR(sliceFrom(d, -14))
                    discountZone == findZone(pdArrays, "discount")
                    premiumZone  == findZone(pdArrays, "premium")
                    entry_price  ==
                      IF bias = "bullish"
                      THEN (IF discountZone # <<>> THEN discountZone[1].price
                            ELSE currentPrice)
                      ELSE (IF premiumZone # <<>> THEN premiumZone[1].price
                            ELSE currentPrice)
                    stop_loss ==
                      IF bias = "bullish"
                      THEN RSub(entry_price, RMul(atr, Rat(3, 2)))
                      ELSE RAdd(entry_price, RMul(atr, Rat(3, 2)))
                    take_profit ==
                      IF bias = "bullish"
                      THEN RAdd(entry_price, RMul(atr, RInt(3)))
                      ELSE RSub(entry_price, RMul(atr, RInt(3)))
                IN  << [asset |-> asset, timeframe |-> "5min", bias |-> bias,
                        entry_price |-> entry_price, stop_loss |-> stop_loss,
                        take_profit |-> take_profit,
                        liquidity_zones |-> liquidityPools \o pdArrays] >>

---------------------------------------------------------------------------
(* The input series.  A series is a run of ordinary bars around price 1000 *)
(* followed by three closing bars drawn from the shapes below; bars are    *)
(* three days apart and the last one is dated today.  Every bar is well    *)
(* formed: low <= min(open, close) <= max(open, close) <= high, prices     *)
(* positive, volume >= 0.                                                  *)

MaxLen == 61

Bar(o, h, l, c, v) ==
  [timestamp |-> 0, open |-> o, high |-> h, low |-> l, close |-> c, volume |-> v]

\* the ordinary bars, taken in rotation
Ordinary == << Bar(1000, 1010, 990, 1000, 100),
               Bar(1000, 1005, 985, 995, 100),
               Bar(995, 1008, 992, 1002, 100) >>

\* third bar from the end: ordinary, a dip under the range, a spike over it
Prev2Shapes == { Bar(1000, 1010, 990, 1000, 100),
                 Bar(1000, 1005, 960, 1000, 100),
                 Bar(1000, 1040, 995, 1000, 100) }

\* second bar from the end: ordinary, wide bearish, bullish, spike, no range
PrevShapes == { Bar(1000, 1010, 990, 1000, 100),
                Bar(1020, 1030, 970, 980, 100),
                Bar(990, 1015, 985, 1010, 100),
                Bar(1000, 1000, 1000, 1000, 100) }

\* last bar: ordinary (open = close), no range and no volume, bullish with a
\* volume spike, bearish with a volume spike, body 1/1000 of the range, body
\* just over 1/1000 of the range, body half the range
LastShapes == { Bar(1000, 1010, 990, 1000, 100),
                Bar(1000, 1000, 1000, 1000, 0),
                Bar(975, 1040, 970, 1035, 5000),
                Bar(1025, 1030, 960, 965, 5000),
                Bar(1000, 1600, 600, 1001, 100),
                Bar(1000, 1599, 600, 1001, 100),
                Bar(1000, 1010, 990, 1010, 100) }

Lens == {0, 1, 2, 3, 14, 15, 20, 21, 22, 23, 34} \cup (59..MaxLen)

NowDays == {100, 250, 300}

Series(len, now, b3, b2, b1) ==
  [i \in 1..len |->
     [ (IF i = len THEN b1
        ELSE IF i = len - 1 THEN b2
        ELSE IF i = len - 2 THEN b3
        ELSE Ordinary[(i % 3) + 1])
       EXCEPT !.timestamp = now - 3 * (len - i) ] ]

\* closing bars that turn back at a zone level: the second bar from the end
\* sits wholly in the top (bottom) quarter of the 20-bar range and the last
\* bar closes beyond it, still inside that quarter
RejectionTails ==
  { << Bar(1000, 1005, 960, 1000, 100), Bar(1035, 1040, 1030, 1035, 100),
       Bar(1029, 1030, 1022, 1025, 100) >>,
    << Bar(1000, 1040, 995, 1000, 100), Bar(965, 970, 960, 965, 100),
       Bar(971, 978, 970, 975, 100) >> }

Tails == (Prev2Shapes \X PrevShapes \X LastShapes) \cup RejectionTails

\* a series whose last k bars stand still at one price p (every true range
\* of the window is 0), the last of them with a volume spike; with poke, the
\* second bar from the end reaches back to 1000 and closes at p
QuietPrices == {980, 1020}

QuietWindows == {14, 20}

QuietSeriesOf(len, now, p, k, poke) ==
  [i \in 1..len |->
     [ (IF i = len - 1 /\ poke THEN Bar(p, Max2(p, 1000), Min2(p, 1000), p, 100)
        ELSE IF i > len - k THEN Bar(p, p, p, p, IF i = len THEN 5000 ELSE 100)
        ELSE Ordinary[(i % 3) + 1])
       EXCEPT !.timestamp = now - 3 * (len - i) ] ]

QuietSeries(len, now, p) == QuietSeriesOf(len, now, p, 14, FALSE)

WellFormed(b) ==
  /\ b.low <= Min2(b.open, b.close)
  /\ Max2(b.open, b.close) <= b.high
  /\ b.low > 0
  /\ b.volume >= 0

---------------------------------------------------------------------------
(* State: the series under analysis, the wall-clock day, and the result of *)
(* the operation in progress (op = "none" between invocations).            *)

Assets == {"XAUUSD", "NASDAQ"}

NoRet ==
  [op |-> "none", asset |-> "none", period |-> 0,
   signals |-> <<>>, ictSignal |-> <<>>,
   atr |-> RInt(0),
   volatility |-> [isHighVolatility |-> FALSE,
                   currentATR |-> RInt(0), avgATR |-> RInt(0)],
   doji |-> FALSE,
   turtleSoup |-> [bullish |-> FALSE, bearish |-> FALSE],
   engulfing |-> [bullish |-> FALSE, bearish |-> FALSE],
   pdArrays |-> [premium |-> RInt(0), equilibrium |-> RInt(0),
                 discount |-> RInt(0), current |-> RInt(0),
                 zone |-> "equilibrium"],
   pdZones |-> <<>>,
   bias |-> "neutral",
   pools |-> <<>>,
   pdEntries |-> NoEntry,
   liquidityEvent |-> FALSE]

\* no request in progress: the response slot of the handlers
NoResp ==
  [handler |-> "none", status |-> 0, failed |-> {},
   passed |-> [a \in Assets |-> <<>>], stored |-> 0]

\* the concurrent requests that call makeAPICallWithRetry
Procs == {1, 2}

\* pc: where the call stands; attempt: the loop counter; fetched: fetches
\* issued; outcomes: how each finished fetch ended; result: what the call
\* returned or threw, and of which attempt
NoCall ==
  [pc |-> "idle", attempt |-> 0, wake |-> 0, issued |-> 0, fetched |-> 0,
   outcomes |-> <<>>, result |-> [attempt |-> 0, value |-> "none"]]

\* the handlers at rest on an empty store
HandlersIdle ==
  /\ store = [a \in Assets |-> {}]
  /\ resp = NoResp

\* no provider call made yet (market-data/index.ts:18, lastCallTime = 0)
RateIdle ==
  /\ clock = 0
  /\ lastCallTime = 0
  /\ calls = [p \in Procs |-> NoCall]
  /\ starts = <<>>

Init ==
  /\ nowDay \in NowDays
  /\ \E len \in Lens :
       \/ \E t \in Tails : data = Series(len, nowDay, t[1], t[2], t[3])
       \/ \E p \in QuietPrices, k \in QuietWindows, poke \in BOOLEAN :
            data = QuietSeriesOf(len, nowDay, p, k, poke)
  /\ ret = NoRet
  /\ HandlersIdle
  /\ RateIdle

\* generateEntrySignals(asset, data), as the POST /entries handler calls it
GenerateEntrySignals ==
  /\ ret.op = "none"
  /\ \E asset \in Assets :
    /\ ret' = [NoRet EXCEPT !.op = "generateEntrySignals", !.asset = asset,
                            !.signals = generateEntrySignals(asset, data, nowDay)]
    /\ UNCHANGED <<data, nowDay, handlerVars, rateVars>>

\* generateICTSignal(asset, data), as the POST /ict-signals handler calls it
GenerateICTSignal ==
  /\ ret.op = "none"
  /\ \E asset \in Assets :
    /\ ret' = [NoRet EXCEPT !.op = "generateICTSignal", !.asset = asset,
                            !.ictSignal = generateICTSignal(asset, data, nowDay)]
    /\ UNCHANGED <<data, nowDay, handlerVars, rateVars>>

\* calculateATR(data, period) with the periods the code uses
CalculateATR ==
  /\ ret.op = "none"
  /\ \E period \in {14, 20} :
    /\ ret' = [NoRet EXCEPT !.op = "calculateATR", !.period = period,
                            !.atr = calculateATR(data, period)]
    /\ UNCHANGED <<data, nowDay, handlerVars, rateVars>>

AnalyzeVolatility ==
  /\ ret.op = "none"
  /\ ret' = [NoRet EXCEPT !.op = "analyzeVolatility",
                          !.volatility = analyzeVolatility(data)]
  /\ UNCHANGED <<data, nowDay, handlerVars, rateVars>>

\* detectDoji(data[data.length - 1])
DetectDoji ==
  /\ ret.op = "none"
  /\ Len(data) > 0
  /\ ret' = [NoRet EXCEPT !.op = "detectDoji", !.doji = detectDoji(data[Len(data)])]
  /\ UNCHANGED <<data, nowDay, handlerVars, rateVars>>

DetectTurtleSoup ==
  /\ ret.op = "none"
  /\ ret' = [NoRet EXCEPT !.op = "detectTurtleSoup",
                          !.turtleSoup = detectTurtleSoup(data)]
  /\ UNCHANGED <<data, nowDay, handlerVars, rateVars>>

DetectEngulfing ==
  /\ ret.op = "none"
  /\ ret' = [NoRet EXCEPT !.op = "detectEngulfing",
                          !.engulfing = detectEngulfing(data)]
  /\ UNCHANGED <<data, nowDay, handlerVars, rateVars>>

AnalyzePDArrays ==
  /\ ret.op = "none"
  /\ ret' = [NoRet EXCEPT !.op = "analyzePDArrays",
                          !.pdArrays = analyzePDArrays(data)]
  /\ UNCHANGED <<data, nowDay, handlerVars, rateVars>>

CalculatePDArrays ==
  /\ ret.op = "none"
  /\ ret' = [NoRet EXCEPT !.op = "calculatePDArrays",
                          !.pdZones = calculatePDArrays(data)]
  /\ UNCHANGED <<data, nowDay, handlerVars, rateVars>>

GetQuarterlyBias ==
  /\ ret.op = "none"
  /\ ret' = [NoRet EXCEPT !.op = "getQuarterlyBias",
                          !.bias = getQuarterlyBias(data, nowDay)]
  /\ UNCHANGED <<data, nowDay, handlerVars, rateVars>>

AnalyzeQuarterlyBias ==
  /\ ret.op = "none"
  /\ ret' = [NoRet EXCEPT !.op = "analyzeQuarterlyBias",
                          !.bias = analyzeQuarterlyBias(data, nowDay)]
  /\ UNCHANGED <<data, nowDay, handlerVars, rateVars>>

IdentifyLiquidityPools ==
  /\ ret.op = "none"
  /\ ret' = [NoRet EXCEPT !.op = "identifyLiquidityPools",
                          !.pools = identifyLiquidityPools(data)]
  /\ UNCHANGED <<data, nowDay, handlerVars, rateVars>>

\* detectPDArrayEntries(data, pdArrays) with pdArrays = analyzePDArrays(data)
DetectPDArrayEntries ==
  /\ ret.op = "none"
  /\ ret' = [NoRet EXCEPT !.op = "detectPDArrayEntries",
                          !.pdArrays = analyzePDArrays(data),
                          !.pdEntries =
                             detectPDArrayEntries(data, analyzePDArrays(data))]
  /\ UNCHANGED <<data, nowDay, handlerVars, rateVars>>

\* detectLiquidityEvents(data, liquidityPools) with
\* liquidityPools = identifyLiquidityPools(data)
DetectLiquidityEvents ==
  /\ ret.op = "none"
  /\ LET liquidityPools == identifyLiquidityPools(data)
     IN  ret' = [NoRet EXCEPT !.op = "detectLiquidityEvents",
                              !.pools = liquidityPools,
                              !.liquidityEvent =
                                 detectLiquidityEvents(data, liquidityPools)]
  /\ UNCHANGED <<data, nowDay, handlerVars, rateVars>>

\* the caller takes the result; the engine keeps nothing of the invocation
Return ==
  /\ ret.op # "none"
  /\ ret' = NoRet
  /\ UNCHANGED <<data, nowDay, handlerVars, rateVars>>

Next ==
  \/ GenerateEntrySignals
  \/ GenerateICTSignal
  \/ CalculateATR
  \/ AnalyzeVolatility
  \/ DetectDoji
  \/ DetectTurtleSoup
  \/ DetectEngulfing
  \/ AnalyzePDArrays
  \/ CalculatePDArrays
  \/ GetQuarterlyBias
  \/ AnalyzeQuarterlyBias
  \/ DetectPDArrayEntries
  \/ Return

Spec == Init /\ [][Next]_vars

\* The liquidity-pool operations of the ict-signals function, on series of
\* every short length (where the look-ahead window is cut by the series end)
\* and on full-length series.
PoolLens == (0..12) \cup {20, 21, MaxLen}

LiquidityInit ==
  /\ nowDay = 250
  /\ \E len \in PoolLens :
       \/ \E t \in Tails : data = Series(len, nowDay, t[1], t[2], t[3])
       \/ \E p \in QuietPrices, k \in QuietWindows, poke \in BOOLEAN :
            data = QuietSeriesOf(len, nowDay, p, k, poke)
  /\ ret = NoRet
  /\ HandlersIdle
  /\ RateIdle

LiquidityNext ==
  \/ IdentifyLiquidityPools
  \/ DetectLiquidityEvents
  \/ Return

LiquiditySpec == LiquidityInit /\ [][LiquidityNext]_vars

---------------------------------------------------------------------------
(* The bar store (table market_data, unique on (timestamp, asset)) and the *)
(* POST handlers of the three functions.  A row is identified by its asset *)
(* and timestamp; the provider never changes a bar it has reported, so the *)
(* store keeps the timestamps per asset and BarAt gives the bar.  The      *)
(* collaborators (provider fetch, database read and write) succeed or fail *)
(* as the environment chooses.                                             *)

FetchLimit == 100

QueryLimit == 500

\* latest timestamp the provider reports
MaxTime == 300

\* the provider's latest timestamp at the time of a fetch
Heads == {100, 200, 250, MaxTime}

\* the bar of asset a at time t: gold has no volume; the index closes its
\* latest bar high on a volume spike
BarAt(a, t) ==
  IF a = "XAUUSD"
    THEN [Ordinary[(t % 3) + 1] EXCEPT !.timestamp = t, !.volume = 0]
  ELSE IF t = MaxTime
    THEN [Bar(975, 1040, 970, 1035, 5000) EXCEPT !.timestamp = t]
  ELSE [Ordinary[(t % 3) + 1] EXCEPT !.timestamp = t]

\* the timestamps of the records a fetch returns when the provider's latest
\* is head: the latest FetchLimit of them
fetchRecords(head) == {t \in 1..head : t > head - FetchLimit}

\* upsert with ignoreDuplicates on (timestamp, asset)
storeMarketData(s, records) == [a \in Assets |-> s[a] \cup records[a]]

\* the rows with timestamp in lo..hi in ascending order of timestamp; of two
\* rows with the same timestamp the one of asset `first` comes first
RECURSIVE rowsBetween(_, _, _, _)
rowsBetween(s, first, lo, hi) ==
  IF lo > hi THEN <<>>
  ELSE IF lo = hi
    THEN LET other == CHOOSE a \in Assets : a # first
         IN  (IF lo \in s[first]
                THEN <<[asset |-> first, timestamp |-> lo]>> ELSE <<>>)
             \o (IF lo \in s[other]
                   THEN <<[asset |-> other, timestamp |-> lo]>> ELSE <<>>)
  ELSE LET mid == (lo + hi) \div 2
       IN  rowsBetween(s, first, lo, mid) \o rowsBetween(s, first, mid + 1, hi)

\* select * from market_data order by timestamp asc limit 500
selectMarketData(s, first) ==
  LET rows == rowsBetween(s, first, 1, MaxTime)
  IN  SubSeq(rows, 1, Min2(QueryLimit, Len(rows)))

\* marketData.filter(d => d.asset === asset)
filterAsset(rows, asset) == SelectSeq(rows, LAMBDA r : r.asset = asset)

barsOf(rows) == [i \in 1..Len(rows) |-> BarAt(rows[i].asset, rows[i].timestamp)]

timestampsOf(rows) == [i \in 1..Len(rows) |-> rows[i].timestamp]

\* POST /market-data: fetch both assets (x, n: the provider's latest
\* timestamp, 0 when the fetch throws), store what was fetched
PostMarketData ==
  /\ resp.handler = "none"
  /\ \E x \in Heads \cup {0}, n \in Heads \cup {0}, storeOk \in BOOLEAN :
       LET allMarketData ==
             [a \in Assets |->
                LET head == IF a = "XAUUSD" THEN x ELSE n
                IN  IF head = 0 THEN {} ELSE fetchRecords(head)]
           count == Cardinality(allMarketData["XAUUSD"])
                      + Cardinality(allMarketData["NASDAQ"])
           storeThrows == count > 0 /\ ~storeOk
       IN  /\ count = 0 => storeOk
           /\ store' = IF count > 0 /\ storeOk
                         THEN storeMarketData(store, allMarketData)
                         ELSE store
           /\ resp' = [NoResp EXCEPT
                         !.handler = "market-data",
                         !.status = IF storeThrows THEN 500 ELSE 200,
                         !.failed = (IF x = 0 THEN {"fetchXAUUSD"} ELSE {})
                                    \cup (IF n = 0 THEN {"fetchNASDAQ"} ELSE {})
                                    \cup (IF storeThrows
                                            THEN {"storeMarketData"} ELSE {}),
                         !.stored = IF storeThrows THEN 0 ELSE count]
  /\ UNCHANGED <<data, nowDay, ret, rateVars>>

\* POST /entries: read the bars, generate per asset, store the signals
\* (a value computed once is bound by \E over a singleton set)
PostEntries ==
  /\ resp.handler = "none"
  /\ \/ resp' = [NoResp EXCEPT !.handler = "entries", !.status = 500,
                               !.failed = {"select market_data"}]
     \/ \E first \in Assets :
        \E marketData \in {selectMarketData(store, first)} :
        \E xauusdData \in {filterAsset(marketData, "XAUUSD")},
           nasdaqData \in {filterAsset(marketData, "NASDAQ")} :
        \E xauSignals \in
             {IF Len(xauusdData) > 0
                THEN generateEntrySignals("XAUUSD", barsOf(xauusdData), nowDay)
                ELSE <<>>},
           nasdaqSignals \in
             {IF Len(nasdaqData) > 0
                THEN generateEntrySignals("NASDAQ", barsOf(nasdaqData), nowDay)
                ELSE <<>>} :
        \E insertOk \in BOOLEAN :
          LET allSignals  == xauSignals \o nasdaqSignals
              storeThrows == Len(allSignals) > 0 /\ ~insertOk
          IN  /\ Len(allSignals) = 0 => insertOk
              /\ resp' = [NoResp EXCEPT
                            !.handler = "entries",
                            !.status = IF storeThrows THEN 500 ELSE 200,
                            !.failed = IF storeThrows
                                         THEN {"storeEntrySignals"} ELSE {},
                            !.passed = [a \in Assets |->
                                          IF a = "XAUUSD"
                                            THEN timestampsOf(xauusdData)
                                            ELSE timestampsOf(nasdaqData)],
                            !.stored = IF storeThrows THEN 0 ELSE Len(allSignals)]
  /\ UNCHANGED <<store, data, nowDay, ret, rateVars>>

\* POST /ict-signals: read the bars; per asset generate and store at once
PostICTSignals ==
  /\ resp.handler = "none"
  /\ \/ resp' = [NoResp EXCEPT !.handler = "ict-signals", !.status = 500,
                               !.failed = {"select market_data"}]
     \/ \E first \in Assets :
        \E marketData \in {selectMarketData(store, first)} :
        \E xauusdData \in {filterAsset(marketData, "XAUUSD")},
           nasdaqData \in {filterAsset(marketData, "NASDAQ")} :
        \E xauSignal \in
             {IF Len(xauusdData) > 0
                THEN generateICTSignal("XAUUSD", barsOf(xauusdData), nowDay)
                ELSE <<>>} :
        \E xauOk \in BOOLEAN :
          /\ Len(xauSignal) = 0 => xauOk
          /\ IF Len(xauSignal) > 0 /\ ~xauOk
               THEN resp' = [NoResp EXCEPT
                               !.handler = "ict-signals", !.status = 500,
                               !.failed = {"storeTradeSignal"},
                               !.passed = [NoResp.passed EXCEPT
                                             !["XAUUSD"] = timestampsOf(xauusdData)]]
               ELSE \E nasdaqSignal \in
                         {IF Len(nasdaqData) > 0
                            THEN generateICTSignal("NASDAQ", barsOf(nasdaqData), nowDay)
                            ELSE <<>>} :
                    \E nasOk \in BOOLEAN :
                      /\ Len(nasdaqSignal) = 0 => nasOk
                      /\ resp' = [NoResp EXCEPT
                                    !.handler = "ict-signals",
                                    !.status = IF nasOk THEN 200 ELSE 500,
                                    !.failed = IF nasOk THEN {}
                                               ELSE {"storeTradeSignal"},
                                    !.passed = [a \in Assets |->
                                                  IF a = "XAUUSD"
                                                    THEN timestampsOf(xauusdData)
                                                    ELSE timestampsOf(nasdaqData)],
                                    !.stored = Len(xauSignal)
                                               + (IF nasOk THEN Len(nasdaqSignal)
                                                  ELSE 0)]
  /\ UNCHANGED <<store, data, nowDay, ret, rateVars>>

\* the response is sent
Reply ==
  /\ resp.handler # "none"
  /\ resp' = NoResp
  /\ UNCHANGED <<store, data, nowDay, ret, rateVars>>

HandlerInit ==
  /\ data = <<>>
  /\ nowDay = MaxTime
  /\ ret = NoRet
  /\ HandlersIdle
  /\ RateIdle

HandlerNext ==
  \/ PostMarketData
  \/ PostEntries
  \/ PostICTSignals
  \/ Reply

HandlerSpec == HandlerInit /\ [][HandlerNext]_vars

---------------------------------------------------------------------------
(* The provider calls of the market-data function.  Each request runs      *)
(* makeAPICallWithRetry on the one event loop of the function instance:    *)
(* the code between two awaits runs without interruption, and the requests *)
(* interleave at the awaits (the rate-limit delay, the fetch, the retry    *)
(* delay).  Times are milliseconds of Date.now(); a timer fires at the     *)
(* time it was set for; a fetch takes between 0 and MaxFetchTime.          *)

RATE_LIMIT_DELAY == 12000

RetryDelay == 5000

maxRetries == 3

\* the longest a fetch takes
MaxFetchTime == 2000

\* the step by which time passes while a fetch is in flight
TimeStep == 1000

\* the loop body up to the first await of attempt k, run at the current time:
\* wait out the rest of the rate-limit delay, or stamp lastCallTime and fetch
beginAttempt(p, k) ==
  LET now == clock
      timeSinceLastCall == now - lastCallTime
  IN  IF timeSinceLastCall < RATE_LIMIT_DELAY
        THEN /\ calls' = [calls EXCEPT
                            ![p].pc = "delay", ![p].attempt = k,
                            ![p].wake = now + (RATE_LIMIT_DELAY - timeSinceLastCall),
                            ![p].issued = 0]
             /\ UNCHANGED <<lastCallTime, starts>>
        ELSE /\ lastCallTime' = now
             /\ starts' = Append(starts, now)
             /\ calls' = [calls EXCEPT
                            ![p].pc = "fetch", ![p].attempt = k, ![p].wake = 0,
                            ![p].issued = now, ![p].fetched = @ + 1]

\* a request calls makeAPICallWithRetry(url)
Call(p) ==
  /\ calls[p].pc = "idle"
  /\ beginAttempt(p, 1)
  /\ UNCHANGED <<clock, data, nowDay, ret, handlerVars>>

\* await delay(waitTime) is over: lastCallTime = Date.now(); fetch(url)
DelayDone(p) ==
  /\ calls[p].pc = "delay"
  /\ clock = calls[p].wake
  /\ lastCallTime' = clock
  /\ starts' = Append(starts, clock)
  /\ calls' = [calls EXCEPT ![p].pc = "fetch", ![p].wake = 0,
                            ![p].issued = clock, ![p].fetched = @ + 1]
  /\ UNCHANGED <<clock, data, nowDay, ret, handlerVars>>

\* the fetch answers with usable data: return data
FetchOk(p) ==
  /\ calls[p].pc = "fetch"
  /\ calls' = [calls EXCEPT
                 ![p].pc = "returned",
                 ![p].outcomes = Append(@, "ok"),
                 ![p].result = [attempt |-> calls[p].attempt, value |-> "ok"]]
  /\ UNCHANGED <<clock, lastCallTime, starts, data, nowDay, ret, handlerVars>>

\* the ways an attempt fails: fetch rejects, !response.ok, an
\* 'Error Message' field, a 'Note' field
Failures == {"network", "http", "errorMessage", "note"}

\* the catch block giving up one attempt before the last
FetchFailGivesUpEarly(p) ==
  /\ calls[p].pc = "fetch"
  /\ \E error \in Failures :
       calls' = IF calls[p].attempt >= maxRetries - 1
                  THEN [calls EXCEPT
                          ![p].pc = "thrown",
                          ![p].outcomes = Append(@, error),
                          ![p].result = [attempt |-> calls[p].attempt,
                                         value |-> error]]
                  ELSE [calls EXCEPT
                          ![p].pc = "retry",
                          ![p].outcomes = Append(@, error),
                          ![p].wake = clock + RetryDelay]
  /\ UNCHANGED <<clock, lastCallTime, starts, data, nowDay, ret, handlerVars>>

\* the attempt fails: throw the error on the last attempt, otherwise
\* await delay(5000)
FetchFail(p) ==
  /\ calls[p].pc = "fetch"
  /\ \E error \in Failures :
       calls' = IF calls[p].attempt = maxRetries
                  THEN [calls EXCEPT
                          ![p].pc = "thrown",
                          ![p].outcomes = Append(@, error),
                          ![p].result = [attempt |-> calls[p].attempt,
                                         value |-> error]]
                  ELSE [calls EXCEPT
                          ![p].pc = "retry",
                          ![p].outcomes = Append(@, error),
                          ![p].wake = clock + RetryDelay]
  /\ UNCHANGED <<clock, lastCallTime, starts, data, nowDay, ret, handlerVars>>

\* the retry delay is over: the next iteration of the loop
RetryDone(p) ==
  /\ calls[p].pc = "retry"
  /\ clock = calls[p].wake
  /\ beginAttempt(p, calls[p].attempt + 1)
  /\ UNCHANGED <<clock, data, nowDay, ret, handlerVars>>

\* time passes, to the next timer or by one step, while a call is under way
Tick ==
  /\ \E p \in Procs : calls[p].pc \in {"delay", "fetch", "retry"}
  /\ \E t \in {clock + TimeStep}
               \cup {calls[p].wake : p \in {q \in Procs : calls[q].pc \in {"delay", "retry"}}} :
       /\ t > clock
       /\ \A p \in Procs :
            /\ calls[p].pc \in {"delay", "retry"} => t <= calls[p].wake
            /\ calls[p].pc = "fetch" => t - calls[p].issued <= MaxFetchTime
       /\ clock' = t
  /\ UNCHANGED <<lastCallTime, calls, starts, data, nowDay, ret, handlerVars>>

\* the first request arrives long after the epoch: it never waits
RateInit ==
  /\ data = <<>>
  /\ nowDay = 250
  /\ ret = NoRet
  /\ HandlersIdle
  /\ clock = RATE_LIMIT_DELAY
  /\ lastCallTime = 0
  /\ calls = [p \in Procs |-> NoCall]
  /\ starts = <<>>

RateNext ==
  \/ \E p \in Procs : Call(p)
  \/ \E p \in Procs : DelayDone(p)
  \/ \E p \in Procs : FetchOk(p)
  \/ \E p \in Procs : FetchFail(p)
  \/ \E p \in Procs : RetryDone(p)
  \/ Tick

RateSpec == RateInit /\ [][RateNext]_vars

\* every timer fires, every fetch settles, and time passes
RateFairness ==
  /\ WF_vars(Tick)
  /\ \A p \in Procs :
       /\ WF_vars(DelayDone(p))
       /\ WF_vars(RetryDone(p))
       /\ WF_vars(FetchOk(p) \/ FetchFail(p))

RateFairSpec == RateSpec /\ RateFairness

TypeOK ==
  /\ \A i \in 1..Len(data) : WellFormed(data[i])
  /\ \A i \in 1..(Len(data) - 1) : data[i].timestamp < data[i + 1].timestamp
  /\ Len(ret.ictSignal) <= 1

---------------------------------------------------------------------------
(* Reference definitions used to state the claims                          *)

\* true range of the bar at position i >= 2 of the series:
\* max(high - low, |high - prevClose|, |low - prevClose|)
SpecTrueRange(d, i) ==
  LET cands == { d[i].high - d[i].low,
                 Abs(d[i].high - d[i - 1].close),
                 Abs(d[i].low - d[i - 1].close) }
  IN  CHOOSE x \in cands : \A y \in cands : x >= y

RECURSIVE SumTrueRange(_, _, _)
SumTrueRange(d, first, last) ==
  IF first > last THEN 0
  ELSE SpecTrueRange(d, last) + SumTrueRange(d, first, last - 1)

\* arithmetic mean of the true ranges of the bars at positions first..last
MeanTrueRange(d, first, last) ==
  Rat(SumTrueRange(d, first, last), last - first + 1)

\* the gate of the synthesizer as the code evaluates it
GatePasses(d) == Len(d) >= 60 /\ analyzeVolatility(d).isHighVolatility

\* what the detectors, the bias and the zone report for the series
DetectorsReport(asset, d, now) ==
  IF Len(d) = 0 THEN <<>>
  ELSE detectAndPush(asset, d, now, calculateATR(d, 20),
                     getQuarterlyBias(d, now), analyzePDArrays(d))

LastBar == data[Len(data)]

---------------------------------------------------------------------------
(* Claims                                                                  *)

\* C1: generateEntrySignals returns the empty sequence for every series
\* shorter than 60 bars and for every series on which isHighVolatility is
\* false, whatever the detectors, the bias and the zone would report.
C1_GateEmitsNothing ==
  ret.op = "generateEntrySignals" =>
    /\ Len(data) < 60 => ret.signals = <<>>
    /\ ~analyzeVolatility(data).isHighVolatility => ret.signals = <<>>

\* a series of at least 60 bars whose detectors fire, rejected by the gate
C1_Witness ==
  /\ ret.op = "generateEntrySignals"
  /\ Len(data) >= 60
  /\ ~analyzeVolatility(data).isHighVolatility
  /\ Len(DetectorsReport(ret.asset, data, nowDay)) >= 2
  /\ ret.signals = <<>>

\* C2: for every series of at least 60 bars, isHighVolatility is true exactly
\* when the average true range of the most recent 14 bars is strictly
\* greater than the average true range of the 20 bars before them.
C2_HighVolatilityIffRecentExceedsPrior ==
  (ret.op = "analyzeVolatility" /\ Len(data) >= 60) =>
    (ret.volatility.isHighVolatility <=>
       RGt(MeanTrueRange(data, Len(data) - 13, Len(data)),
           MeanTrueRange(data, Len(data) - 33, Len(data) - 14)))

\* C3: the synthesizer can emit signals: on a well-formed series of at least
\* 60 bars whose recent average true range exceeds the prior one, it returns
\* one signal per detector that fired (one signal, or several).
C3_EmitsOneSignalPerFiredDetector ==
  ( /\ ret.op = "generateEntrySignals"
    /\ Len(data) >= 60
    /\ RGt(MeanTrueRange(data, Len(data) - 13, Len(data)),
           MeanTrueRange(data, Len(data) - 33, Len(data) - 14)) ) =>
    Len(ret.signals) = Len(DetectorsReport(ret.asset, data, nowDay))

\* what the code does instead: no invocation of generateEntrySignals ever
\* returns a signal
NeverEmitsEntrySignal == ret.signals = <<>>

\* stop, entry and target of one signal strictly ordered, target twice as
\* far from the entry as the stop
OrderedPrices(sig) ==
  /\ sig.bias \in {"bullish", "bearish"}
  /\ sig.bias = "bullish" =>
       /\ RLt(sig.stop_loss, sig.entry_price)
       /\ RLt(sig.entry_price, sig.take_profit)
       /\ RSub(sig.take_profit, sig.entry_price)
            = RMul(RInt(2), RSub(sig.entry_price, sig.stop_loss))
  /\ sig.bias = "bearish" =>
       /\ RLt(sig.take_profit, sig.entry_price)
       /\ RLt(sig.entry_price, sig.stop_loss)
       /\ RSub(sig.entry_price, sig.take_profit)
            = RMul(RInt(2), RSub(sig.stop_loss, sig.entry_price))

\* C4: every signal emitted by generateEntrySignals or generateICTSignal on a
\* well-formed series is bullish or bearish (never neutral) and has strictly
\* ordered prices with the target twice as far from the entry as the stop
\* (so no signal has a zero ATR distance).
C4_SignalPricesOrdered ==
  /\ \A i \in 1..Len(ret.signals) : OrderedPrices(ret.signals[i])
  /\ \A i \in 1..Len(ret.ictSignal) : OrderedPrices(ret.ictSignal[i])

\* generateICTSignal has returned a bearish signal
C4_Witness ==
  /\ ret.op = "generateICTSignal"
  /\ ret.ictSignal # <<>>
  /\ ret.ictSignal[1].bias = "bearish"

C4_WitnessBullish ==
  /\ ret.op = "generateICTSignal"
  /\ ret.ictSignal # <<>>
  /\ ret.ictSignal[1].bias = "bullish"

\* a quiet series with a directional bias and a volume spike: the 14-bar
\* ATR is 0 and generateICTSignal returns null
ZeroATRNoSignal ==
  /\ ret.op = "generateICTSignal"
  /\ Len(data) >= 60
  /\ ictCalculateATR(sliceFrom(data, -14)) = RInt(0)
  /\ analyzeQuarterlyBias(data, nowDay) # "neutral"
  /\ ret.ictSignal = <<>>

\* C7: calculateATR(series, period) returns 0 when the series has fewer than
\* period + 1 bars, and otherwise the arithmetic mean of the last `period`
\* true ranges of the series.
C7_ATRIsMeanOfLastTrueRanges ==
  ret.op = "calculateATR" =>
    IF Len(data) < ret.period + 1
    THEN ret.atr = RInt(0)
    ELSE ret.atr = MeanTrueRange(data, Len(data) - ret.period + 1, Len(data))

\* calculateATR has averaged the last 14 true ranges of a longer series
C7_Witness ==
  /\ ret.op = "calculateATR"
  /\ ret.period = 14
  /\ Len(data) > 15
  /\ RGt(ret.atr, RInt(0))

\* calculateATR has returned 0 for a series of exactly `period` bars
C7_WitnessShort ==
  /\ ret.op = "calculateATR"
  /\ Len(data) = ret.period
  /\ ret.atr = RInt(0)

\* C8: detectDoji classifies every bar with open = close and high > low as a
\* doji, does not classify a bar whose body is half its range, and on a bar
\* with a range returns true exactly when body / range <= 0.001.
C8_DojiThreshold ==
  ret.op = "detectDoji" =>
    LET body  == Abs(LastBar.close - LastBar.open)
        range == LastBar.high - LastBar.low
    IN  /\ (LastBar.open = LastBar.close /\ LastBar.high > LastBar.low) => ret.doji
        /\ 2 * body = range => ~ret.doji
        /\ range > 0 => (ret.doji <=> 1000 * body <= range)

\* detectDoji has accepted a bar whose body is exactly 1/1000 of its range
C8_Witness ==
  /\ ret.op = "detectDoji"
  /\ LastBar.close # LastBar.open
  /\ 1000 * Abs(LastBar.close - LastBar.open) = LastBar.high - LastBar.low
  /\ ret.doji

\* detectDoji has rejected a bar whose body is half its range
C8_WitnessHalf ==
  /\ ret.op = "detectDoji"
  /\ LastBar.high > LastBar.low
  /\ 2 * Abs(LastBar.close - LastBar.open) = LastBar.high - LastBar.low
  /\ ~ret.doji

\* C9: detectDoji returns true for every bar whose range is zero
\* (high = low, hence open = close).
C9_ZeroRangeIsDoji ==
  (ret.op = "detectDoji" /\ LastBar.high = LastBar.low) => ret.doji

\* C10: on at least 22 bars detectTurtleSoup reports bearish exactly when the
\* 21st of the last 22 bars has a high above every high of the first 20 and
\* the 22nd closes below one of those highs (below their maximum), bullish
\* exactly when the 21st has a low below every low of the first 20 and the
\* 22nd closes above one of those lows; on fewer than 22 bars both are false.
C10_TurtleSoup ==
  ret.op = "detectTurtleSoup" =>
    IF Len(data) < 22
    THEN ret.turtleSoup = [bullish |-> FALSE, bearish |-> FALSE]
    ELSE LET n     == Len(data)
             Ref   == (n - 21)..(n - 2)
             bar21 == data[n - 1]
             bar22 == data[n]
         IN  /\ ret.turtleSoup.bearish <=>
                  /\ \A i \in Ref : bar21.high > data[i].high
                  /\ \E i \in Ref : bar22.close < data[i].high
             /\ ret.turtleSoup.bullish <=>
                  /\ \A i \in Ref : bar21.low < data[i].low
                  /\ \E i \in Ref : bar22.close > data[i].low

\* a false breakout above the 20-bar high only: bearish and not bullish
C10_Witness ==
  /\ ret.op = "detectTurtleSoup"
  /\ Len(data) > 22
  /\ ret.turtleSoup.bearish
  /\ ~ret.turtleSoup.bullish

\* a false breakout on both sides at once
C10_WitnessBoth ==
  /\ ret.op = "detectTurtleSoup"
  /\ ret.turtleSoup.bearish
  /\ ret.turtleSoup.bullish

\* C11: on the last two bars detectEngulfing reports bullish exactly when the
\* previous bar is bearish, the current bar is bullish, the current open is
\* below the previous close and the current close above the previous open
\* (mirror for bearish); never both; both false on fewer than 2 bars.
C11_Engulfing ==
  ret.op = "detectEngulfing" =>
    /\ ~(ret.engulfing.bullish /\ ret.engulfing.bearish)
    /\ IF Len(data) < 2
       THEN ~ret.engulfing.bullish /\ ~ret.engulfing.bearish
       ELSE LET prev == data[Len(data) - 1]
                cur  == data[Len(data)]
            IN  /\ ret.engulfing.bullish <=>
                     ( prev.close < prev.open /\ cur.close > cur.open
                       /\ cur.open < prev.close /\ cur.close > prev.open )
                /\ ret.engulfing.bearish <=>
                     ( prev.close > prev.open /\ cur.close < cur.open
                       /\ cur.open > prev.close /\ cur.close < prev.open )

\* a bullish engulfing on a series of at least 3 bars
C11_Witness ==
  /\ ret.op = "detectEngulfing"
  /\ Len(data) >= 3
  /\ ret.engulfing.bullish
  /\ ~ret.engulfing.bearish

C11_WitnessBearish ==
  /\ ret.op = "detectEngulfing"
  /\ ret.engulfing.bearish

\* highest high and lowest low of the trailing 20 bars (Len(d) >= 20)
WindowHigh(d) ==
  CHOOSE h \in {d[i].high : i \in (Len(d) - 19)..Len(d)} :
    \A i \in (Len(d) - 19)..Len(d) : d[i].high <= h

WindowLow(d) ==
  CHOOSE l \in {d[i].low : i \in (Len(d) - 19)..Len(d)} :
    \A i \in (Len(d) - 19)..Len(d) : d[i].low >= l

\* C12: for every series of at least 20 bars analyzePDArrays and
\* calculatePDArrays give, over the trailing 20 bars, discount = rangeLow +
\* range/4, equilibrium = rangeLow + range/2, premium = rangeLow + 3 range/4,
\* so that rangeLow <= discount <= equilibrium <= premium <= rangeHigh, also
\* when the range is zero.
C12_ZoneLevels ==
  (ret.op \in {"analyzePDArrays", "calculatePDArrays"} /\ Len(data) >= 20) =>
    LET hi == WindowHigh(data)
        lo == WindowLow(data)
        discount    == Rat(3 * lo + hi, 4)
        equilibrium == Rat(lo + hi, 2)
        premium     == Rat(lo + 3 * hi, 4)
    IN  /\ RLe(RInt(lo), discount) /\ RLe(discount, equilibrium)
        /\ RLe(equilibrium, premium) /\ RLe(premium, RInt(hi))
        /\ ret.op = "analyzePDArrays" =>
             /\ ret.pdArrays.discount = discount
             /\ ret.pdArrays.equilibrium = equilibrium
             /\ ret.pdArrays.premium = premium
        /\ ret.op = "calculatePDArrays" =>
             ret.pdZones =
               << [type |-> "premium", price |-> premium, strength |-> 3],
                  [type |-> "equilibrium", price |-> equilibrium, strength |-> 2],
                  [type |-> "discount", price |-> discount, strength |-> 3] >>

\* calculatePDArrays on a window with a range: three distinct levels
C12_Witness ==
  /\ ret.op = "calculatePDArrays"
  /\ Len(data) >= 20
  /\ RLt(ret.pdZones[3].price, ret.pdZones[2].price)
  /\ RLt(ret.pdZones[2].price, ret.pdZones[1].price)

\* analyzePDArrays on a window of zero range: the three levels coincide
C12_WitnessZeroRange ==
  /\ ret.op = "analyzePDArrays"
  /\ Len(data) >= 20
  /\ WindowHigh(data) = WindowLow(data)
  /\ ret.pdArrays.discount = ret.pdArrays.premium

\* C13: analyzePDArrays classifies the zone as premium when the last close is
\* >= the premium level, otherwise discount when it is <= the discount
\* level, otherwise equilibrium; on fewer than 20 bars it returns the default
\* result, all levels 0 and zone equilibrium.
C13_ZoneClassification ==
  ret.op = "analyzePDArrays" =>
    IF Len(data) < 20
    THEN ret.pdArrays = [premium |-> RInt(0), equilibrium |-> RInt(0),
                         discount |-> RInt(0), current |-> RInt(0),
                         zone |-> "equilibrium"]
    ELSE LET hi    == WindowHigh(data)
             lo    == WindowLow(data)
             close == data[Len(data)].close
         IN  ret.pdArrays.zone =
               IF 4 * close >= lo + 3 * hi THEN "premium"
               ELSE IF 4 * close <= 3 * lo + hi THEN "discount"
               ELSE "equilibrium"

\* the last close sits exactly on the premium level
C13_Witness ==
  /\ ret.op = "analyzePDArrays"
  /\ Len(data) >= 20
  /\ ret.pdArrays.current = ret.pdArrays.premium
  /\ ret.pdArrays.zone = "premium"

C13_WitnessDiscount ==
  /\ ret.op = "analyzePDArrays"
  /\ Len(data) >= 20
  /\ WindowHigh(data) > WindowLow(data)
  /\ ret.pdArrays.zone = "discount"

C13_WitnessEquilibrium ==
  /\ ret.op = "analyzePDArrays"
  /\ Len(data) >= 20
  /\ ret.pdArrays.zone = "equilibrium"

\* positions of the bars dated in the Q1, Q2 and Q3 windows of the current
\* year: up to 31 March, after 31 March up to 30 June, after 30 June up to
\* 30 September
Q1Bars(d) == {i \in 1..Len(d) : d[i].timestamp <= DateOf(2, 31)}

Q2Bars(d) ==
  {i \in 1..Len(d) : d[i].timestamp > DateOf(2, 31) /\ d[i].timestamp <= DateOf(5, 30)}

Q3Bars(d) ==
  {i \in 1..Len(d) : d[i].timestamp > DateOf(5, 30) /\ d[i].timestamp <= DateOf(8, 30)}

\* the bias rule of the claim
BiasRule(d) ==
  IF Len(d) < 60 \/ Q2Bars(d) = {} THEN "neutral"
  ELSE LET close == d[Len(d)].close
       IN  IF \A i \in Q2Bars(d) : close > d[i].high THEN "bullish"
           ELSE IF Q3Bars(d) # {} /\ \A i \in Q3Bars(d) : close < d[i].low
             THEN "bearish"
           ELSE IF Q3Bars(d) = {} /\ \E i \in Q2Bars(d) : close < d[i].high
             THEN "bearish"
           ELSE "neutral"

\* C14 as claimed: getQuarterlyBias and analyzeQuarterlyBias both follow the
\* bias rule (bullish above the Q2 high, else bearish below the Q3 low or,
\* without Q3 bars, below the Q2 high, else neutral; neutral under 60 bars
\* or without a Q2 bar).
C14_BothFollowBiasRule ==
  ret.op \in {"getQuarterlyBias", "analyzeQuarterlyBias"} =>
    ret.bias = BiasRule(data)

\* C14 amended: getQuarterlyBias follows the bias rule; analyzeQuarterlyBias
\* follows it when the series has a bar dated on or before 31 March of the
\* current year and is neutral when it has none.
C14_BiasRuleWithQ1Guard ==
  /\ ret.op = "getQuarterlyBias" => ret.bias = BiasRule(data)
  /\ ret.op = "analyzeQuarterlyBias" =>
       ret.bias = IF Q1Bars(data) = {} THEN "neutral" ELSE BiasRule(data)

\* analyzeQuarterlyBias is neutral for want of a Q1 bar where the rule alone
\* gives a direction
C14_Witness ==
  /\ ret.op = "analyzeQuarterlyBias"
  /\ Q1Bars(data) = {}
  /\ BiasRule(data) # "neutral"
  /\ ret.bias = "neutral"

C14_WitnessBullish ==
  /\ ret.op = "analyzeQuarterlyBias"
  /\ ret.bias = "bullish"

C14_WitnessBearishNoQ3 ==
  /\ ret.op = "getQuarterlyBias"
  /\ Q3Bars(data) = {}
  /\ ret.bias = "bearish"

C14_WitnessBearishQ3 ==
  /\ ret.op = "getQuarterlyBias"
  /\ Q3Bars(data) # {}
  /\ ret.bias = "bearish"

---------------------------------------------------------------------------
(* C15: liquidity pools                                                    *)

\* x lies within 0.5% of the positive base b
Near(x, b) == b > 0 /\ 1000 * Abs(x - b) <= 5 * b

\* how many of the next up-to-w values after position i (1-based) of xs lie
\* within tolerance of xs[i]
MatchCount(xs, i, w) ==
  Cardinality({j \in (i + 1)..Min2(i + w, Len(xs)) : Near(xs[j], xs[i])})

\* the pools of one price array: one per interior position with at least
\* `need` matches in the next up-to-w values, strength = matches + extra
PoolsWhere(xs, w, need, extra) ==
  LET idx  == [k \in 1..(Len(xs) - 2) |-> k + 1]
      keep == SelectSeq(idx, LAMBDA i : MatchCount(xs, i, w) >= need)
  IN  [k \in 1..Len(keep) |->
         [type |-> "liquidity_pool", price |-> RInt(xs[keep[k]]),
          strength |-> MatchCount(xs, keep[k], w) + extra]]

\* C15 as stated: a pool at each interior index with at least 2 of the next
\* up-to-10 highs within tolerance, strength equal to that count; the same
\* for lows, appended after the high pools.
C15_PoolsOfNextTen ==
  ret.op = "identifyLiquidityPools" =>
    ret.pools = PoolsWhere(highsOf(data), 10, 2, 0)
                  \o PoolsWhere(lowsOf(data), 10, 2, 0)

\* C15 (amended): identifyLiquidityPools emits a pool at each interior
\* index i exactly when at least 1 of the next up-to-9 highs (i+1..i+9,
\* bounded by the series end) lies within 0.5% of high[i], with strength 1
\* plus that count; the same independently for lows, the low pools appended
\* after the high pools, without deduplication.
C15_PoolsOfNextNine ==
  ret.op = "identifyLiquidityPools" =>
    ret.pools = PoolsWhere(highsOf(data), 9, 1, 1)
                  \o PoolsWhere(lowsOf(data), 9, 1, 1)

\* a full-length series: some interior high has all 9 followers within
\* tolerance (strength 10), the last interior bar has its single follower
\* within tolerance (strength 2), and some interior high has no follower
\* within tolerance and gets no pool
C15_Witness ==
  /\ ret.op = "identifyLiquidityPools"
  /\ Len(data) = MaxLen
  /\ \E k \in 1..Len(ret.pools) : ret.pools[k].strength = 10
  /\ MatchCount(highsOf(data), Len(data) - 1, 9) = 1
  /\ \E k \in 1..Len(ret.pools) :
       /\ ret.pools[k].price = RInt(data[Len(data) - 1].high)
       /\ ret.pools[k].strength = 2
  /\ \E i \in 2..(Len(data) - 1) : MatchCount(highsOf(data), i, 9) = 0

\* a tenth follower within tolerance that the look-ahead does not reach
C15_WitnessTenth ==
  /\ ret.op = "identifyLiquidityPools"
  /\ \E i \in 2..(Len(data) - 10) :
       /\ Near(data[i + 10].high, data[i].high)
       /\ MatchCount(highsOf(data), i, 9) = 9

\* the same price reported twice, once from the highs and once from the lows
C15_WitnessDuplicate ==
  /\ ret.op = "identifyLiquidityPools"
  /\ \E j, k \in 1..Len(ret.pools) : j < k /\ ret.pools[j] = ret.pools[k]

\* nothing from a series of fewer than 3 bars
C15_WitnessShort ==
  /\ ret.op = "identifyLiquidityPools"
  /\ Len(data) = 2
  /\ ret.pools = <<>>

---------------------------------------------------------------------------
(* C16: entries at the premium / discount levels                           *)

PrevBar == data[Len(data) - 1]

\* the previous bar reached the premium level and the last close is below
\* the previous low, in the premium zone
BearishRejection ==
  /\ ret.pdArrays.zone = "premium"
  /\ RGe(RInt(PrevBar.high), ret.pdArrays.premium)
  /\ LastBar.close < PrevBar.low

BullishRejection ==
  /\ ret.pdArrays.zone = "discount"
  /\ RLe(RInt(PrevBar.low), ret.pdArrays.discount)
  /\ LastBar.close > PrevBar.high

BreakoutUp == RGt(RInt(LastBar.close), ret.pdArrays.premium)

BreakoutDown == RLt(RInt(LastBar.close), ret.pdArrays.discount)

\* C16: detectPDArrayEntries reports a bearish rejection in the premium
\* zone, else a bullish rejection in the discount zone, else a bullish
\* breakout above the premium level, else a bearish breakout below the
\* discount level, else nothing; never both rejection and breakout, a
\* direction exactly when one of them is reported, nothing under 3 bars.
C16_PDArrayEntries ==
  ret.op = "detectPDArrayEntries" =>
    LET e == ret.pdEntries
    IN  /\ ~(e.rejection /\ e.breakout)
        /\ (e.direction # "null") <=> (e.rejection \/ e.breakout)
        /\ Len(data) < 3 => e = NoEntry
        /\ Len(data) >= 3 =>
             /\ e.rejection <=> (BearishRejection \/ BullishRejection)
             /\ BearishRejection =>
                  e = [rejection |-> TRUE, breakout |-> FALSE,
                       direction |-> "bearish"]
             /\ BullishRejection =>
                  e = [rejection |-> TRUE, breakout |-> FALSE,
                       direction |-> "bullish"]
             /\ ~(BearishRejection \/ BullishRejection) =>
                  /\ BreakoutUp =>
                       e = [rejection |-> FALSE, breakout |-> TRUE,
                            direction |-> "bullish"]
                  /\ (~BreakoutUp /\ BreakoutDown) =>
                       e = [rejection |-> FALSE, breakout |-> TRUE,
                            direction |-> "bearish"]
                  /\ (~BreakoutUp /\ ~BreakoutDown) => e = NoEntry

\* a bearish rejection reported although the close is also above the
\* premium level
C16_Witness ==
  /\ ret.op = "detectPDArrayEntries"
  /\ Len(data) >= 20
  /\ BearishRejection /\ BreakoutUp
  /\ ret.pdEntries.rejection /\ ret.pdEntries.direction = "bearish"

C16_WitnessBullishRejection ==
  /\ ret.op = "detectPDArrayEntries"
  /\ Len(data) >= 20
  /\ BullishRejection /\ BreakoutDown
  /\ ret.pdEntries.rejection /\ ret.pdEntries.direction = "bullish"

C16_WitnessBreakoutUp ==
  /\ ret.op = "detectPDArrayEntries"
  /\ Len(data) >= 20
  /\ ret.pdArrays.zone = "premium" /\ ~BearishRejection
  /\ ret.pdEntries.breakout /\ ret.pdEntries.direction = "bullish"

C16_WitnessBreakoutDown ==
  /\ ret.op = "detectPDArrayEntries"
  /\ Len(data) >= 20
  /\ ret.pdArrays.zone = "discount" /\ ~BullishRejection
  /\ ret.pdEntries.breakout /\ ret.pdEntries.direction = "bearish"

C16_WitnessNothing ==
  /\ ret.op = "detectPDArrayEntries"
  /\ Len(data) >= 20
  /\ ret.pdEntries = NoEntry

C16_WitnessShort ==
  /\ ret.op = "detectPDArrayEntries"
  /\ Len(data) = 2
  /\ ret.pdEntries = NoEntry

---------------------------------------------------------------------------
(* C17: liquidity events                                                   *)

\* the k-th bar (1..5) of the last-5-bar window
WindowBar(k) == data[Len(data) - 5 + k]

\* the volume of window bar k is more than
\* 2 x (sum of the volumes of the trailing up-to-20 bars) / 20
VolumeSpikeAt(k) ==
  LET from == Max2(1, Len(data) - 19)
      total == SumSeq([i \in 1..(Len(data) - from + 1) |->
                         data[from + i - 1].volume])
  IN  20 * WindowBar(k).volume > 2 * total

\* window bar i breaks the pool price on one side and window bar j closes on
\* the other side of it
BreakThenClose(pool, i, j) ==
  \/ /\ RLt(RInt(WindowBar(i).low), pool.price)
     /\ RGt(RInt(WindowBar(j).close), pool.price)
  \/ /\ RGt(RInt(WindowBar(i).high), pool.price)
     /\ RLt(RInt(WindowBar(j).close), pool.price)

\* C17 as stated: true exactly when, for some pool, a bar of the last-5-bar
\* window breaks the pool price, a later bar of the window closes back on
\* the other side, and some bar of the window has a volume above twice the
\* trailing average; false under 5 bars.
C17_BreakThenLaterClose ==
  ret.op = "detectLiquidityEvents" =>
    ( ret.liquidityEvent <=>
        /\ Len(data) >= 5
        /\ \E k \in 1..5 : VolumeSpikeAt(k)
        /\ \E p \in 1..Len(ret.pools) :
             \E i, j \in 1..5 : i < j /\ BreakThenClose(ret.pools[p], i, j) )

\* C17 (amended): detectLiquidityEvents returns true exactly when, for some
\* pool, one of the first three bars of the last-5-bar window breaks the
\* pool price, one of the last three bars of the window (possibly the same
\* middle bar) closes on the other side of it, and some bar of the window
\* has a volume above 2 x (sum of the volumes of the trailing up-to-20
\* bars) / 20; it returns false when fewer than 5 bars are present.
C17_BreakInFirstThreeCloseInLastThree ==
  ret.op = "detectLiquidityEvents" =>
    ( ret.liquidityEvent <=>
        /\ Len(data) >= 5
        /\ \E k \in 1..5 : VolumeSpikeAt(k)
        /\ \E p \in 1..Len(ret.pools) :
             \E i \in 1..3, j \in 3..5 : BreakThenClose(ret.pools[p], i, j) )

\* an event is reported
C17_Witness ==
  /\ ret.op = "detectLiquidityEvents"
  /\ Len(data) >= 20
  /\ ret.liquidityEvent

\* the break comes only in the fourth bar of the window and the fifth closes
\* back across the pool, with a volume spike: no event is reported
C17_WitnessLateBreak ==
  /\ ret.op = "detectLiquidityEvents"
  /\ Len(data) >= 20
  /\ \E k \in 1..5 : VolumeSpikeAt(k)
  /\ \E p \in 1..Len(ret.pools) : BreakThenClose(ret.pools[p], 4, 5)
  /\ ~ret.liquidityEvent

\* break and reversal without a volume spike: no event
C17_WitnessNoSpike ==
  /\ ret.op = "detectLiquidityEvents"
  /\ Len(data) >= 20
  /\ \E p \in 1..Len(ret.pools) :
       \E i \in 1..3, j \in 3..5 : BreakThenClose(ret.pools[p], i, j)
  /\ ~(\E k \in 1..5 : VolumeSpikeAt(k))
  /\ ~ret.liquidityEvent

\* fewer than 5 bars, with pools and a volume spike: no event
C17_WitnessShort ==
  /\ ret.op = "detectLiquidityEvents"
  /\ Len(data) = 4
  /\ ret.pools # <<>>
  /\ ~ret.liquidityEvent

\* an event on a series of 5 to 19 bars, where the divisor is still 20
C17_WitnessUnderTwenty ==
  /\ ret.op = "detectLiquidityEvents"
  /\ Len(data) \in 5..19
  /\ ret.liquidityEvent

---------------------------------------------------------------------------
(* C18, C19: the POST handlers                                             *)

\* C18: whenever a provider fetch or a database read or write failed during
\* a POST request, the response has status 500.
C18_FailureGives500 ==
  (resp.handler # "none" /\ resp.failed # {}) => resp.status = 500

\* the database failures are surfaced
DatabaseFailureGives500 ==
  (resp.handler # "none"
     /\ resp.failed \cap {"select market_data", "storeMarketData",
                          "storeEntrySignals", "storeTradeSignal"} # {})
    => resp.status = 500

\* the members of S within lo..hi, ascending
RECURSIVE ascending(_, _, _)
ascending(S, lo, hi) ==
  IF lo > hi THEN <<>>
  ELSE IF lo = hi THEN (IF lo \in S THEN <<lo>> ELSE <<>>)
  ELSE LET mid == (lo + hi) \div 2
       IN  ascending(S, lo, mid) \o ascending(S, mid + 1, hi)

\* the latest (at most QueryLimit) members of S, ascending
mostRecent(S) ==
  LET all == ascending(S, 1, MaxTime)
  IN  SubSeq(all, Max2(1, Len(all) - QueryLimit + 1), Len(all))

\* C19: the series a successful POST /entries or POST /ict-signals passes
\* to the generator for an asset is that asset's most recent stored bars (at
\* most 500) in ascending order of timestamp, whatever is stored for the
\* other asset.
C19_PassesMostRecentBars ==
  (resp.handler \in {"entries", "ict-signals"} /\ resp.status = 200) =>
    \A a \in Assets : resp.passed[a] = mostRecent(store[a])

\* the series passed is ascending by timestamp
PassedAscending ==
  \A a \in Assets :
    \A i \in 1..(Len(resp.passed[a]) - 1) :
      resp.passed[a][i] < resp.passed[a][i + 1]

---------------------------------------------------------------------------
(* C20: the rate limit                                                     *)

\* C20: any two provider fetches issued through makeAPICallWithRetry, by the
\* same or by concurrent requests, are started at least RATE_LIMIT_DELAY
\* apart.
C20_FetchesSpacedByRateLimit ==
  \A i, j \in 1..Len(starts) :
    i < j => starts[j] - starts[i] >= RATE_LIMIT_DELAY

\* the fetches of one request alone are spaced by the rate limit
AloneSpacedByRateLimit ==
  (calls[2].pc = "idle") => C20_FetchesSpacedByRateLimit

---------------------------------------------------------------------------
(* C21: the retry loop                                                     *)

CallDone(p) == calls[p].pc \in {"returned", "thrown"}

\* what holds of the call of request p at every moment: at most maxRetries
\* fetches; a success is the last thing the call does and its data is what
\* is returned; an error is thrown only after maxRetries failed attempts and
\* is the error of the last of them
CallOutcome(p) ==
  LET c == calls[p]
      n == Len(c.outcomes)
  IN  /\ c.fetched <= maxRetries
      /\ c.attempt <= maxRetries
      /\ \A i \in 1..n : c.outcomes[i] = "ok" => (i = n /\ c.pc = "returned")
      /\ c.pc = "returned" =>
           /\ n >= 1 /\ c.outcomes[n] = "ok"
           /\ c.fetched = n
           /\ c.result = [attempt |-> n, value |-> "ok"]
      /\ c.pc = "thrown" =>
           /\ n = maxRetries /\ c.fetched = maxRetries
           /\ \A i \in 1..n : c.outcomes[i] \in Failures
           /\ c.result = [attempt |-> maxRetries, value |-> c.outcomes[maxRetries]]
      /\ ~CallDone(p) => c.result.value = "none"

\* C21: makeAPICallWithRetry always terminates after at most maxRetries
\* fetch attempts; it returns the data of the first successful attempt and
\* attempts nothing after it; if every attempt fails it throws the error of
\* the last attempt; it never returns without data.
C21_RetryLoopTerminates ==
  /\ [](\A p \in Procs : CallOutcome(p))
  /\ \A p \in Procs : (calls[p].pc # "idle") ~> CallDone(p)
  /\ [][\A p \in Procs : CallDone(p) => calls'[p] = calls[p]]_vars

\* a call that threw the error of its third attempt, which differs from the
\* errors of the first two
C21_Witness ==
  \E p \in Procs :
    /\ calls[p].pc = "thrown"
    /\ calls[p].outcomes[1] # calls[p].outcomes[3]
    /\ calls[p].outcomes[2] # calls[p].outcomes[3]
    /\ calls[p].result.value = calls[p].outcomes[3]

\* a call that returned the data of its second attempt
C21_WitnessSecondAttempt ==
  \E p \in Procs :
    /\ calls[p].pc = "returned"
    /\ calls[p].fetched = 2
    /\ calls[p].result = [attempt |-> 2, value |-> "ok"]

\* a call that returned the data of its first attempt
C21_WitnessFirstAttempt ==
  \E p \in Procs :
    /\ calls[p].pc = "returned"
    /\ calls[p].outcomes = <<"ok">>

\* both requests done, one by a return on its last attempt and one by a throw
C21_WitnessBothDone ==
  /\ calls[1].pc = "returned" /\ calls[1].fetched = maxRetries
  /\ calls[2].pc = "thrown"

=============================================================================
